---------------------------- MODULE Spec2Model ----------------------------
(***************************************************************************)
(* Model of the MicroPython TPS55289 buck-boost converter driver           *)
(* (src/TPS55289.py).                                                      *)
(*                                                                         *)
(* Units.  Python floats are modelled exactly as rationals <<n, d>>:       *)
(*   voltages        : tenths of a volt     (0.8 V  = 8)                   *)
(*   current limits  : hundredths of an amp (6.35 A = 635)                 *)
(*   step sizes      : tenths of a millivolt (2.5 mV = 25)                 *)
(*   _INTFB_Val      : ten-thousandths      (0.0564 = 564)                 *)
(*   CDC compensation: tenths of a volt     (0.3 V  = 3)                   *)
(* Python integers are unbounded; the bitwise operators are computed on    *)
(* two's complement words of IntWidth bits, wide enough for every value    *)
(* the model reaches.                                                      *)
(***************************************************************************)
EXTENDS Integers, Sequences, FiniteSets, TLC

(***************************************************************************)
(* Bounds of the model                                                     *)
(***************************************************************************)
IntWidth == 16          \* width of the words the bitwise operators work on
MaxOps == 2             \* public calls after construction in Spec

(***************************************************************************)
(* Inputs                                                                  *)
(***************************************************************************)
CtorVoltages == {8, 50}                     \* outputVoltage= argument
CtorLimits == {635}                         \* currentLimit= argument (0.01 A)
CtorFeedback == {0}                         \* feedbackMode= argument
Voltages == {5, 8, 50, 120, 220, 230}       \* 0.5 V and 23 V are invalid
Limits == {0, 35, 500, 635, 700}
Codes2 == 0..4                              \* 0..3 valid, 4 invalid
StepSizes == {25, 50, 75, 100, 30}          \* 30 (3 mV) is invalid
Mechanisms == {"internal", "external", "other"}
Options == {0, 1, 2}                        \* 2 is invalid
Compensations == {0, 3, 7, 8}               \* 8 (0.8 V) is invalid
StatusBytes == {0, 3, 8, 9, 10, 11, 16, 32, 35, 64, 112, 128}
InitStatusBytes == {0, 8, 32}               \* status bytes read by init()
Modes == {"monitor", "debug"}
BusFaults == 0..2       \* no write, the first or the second write fails

(***************************************************************************)
(* Register addresses and constants, src/TPS55289.py:28-41                 *)
(***************************************************************************)
TPS55289_REF_VOLTAGE_LSB_ADDR == 0
TPS55289_REF_VOLTAGE_MSB_ADDR == 1
TPS55289_IOUT_LIMIT_ADDR == 2
TPS55289_VOUT_SR_ADDR == 3
TPS55289_VOUT_FS_ADDR == 4
TPS55289_CDC_ADDR == 5
TPS55289_MODE_ADDR == 6
TPS55289_STATUS_ADDR == 7
INTFB_00 == 2256
INTFB_01 == 1128
INTFB_10 == 752
INTFB_11 == 564

(***************************************************************************)
(* Python integer and float operators                                      *)
(***************************************************************************)
RECURSIVE Pow2(_)
Pow2(k) == IF k = 0 THEN 1 ELSE 2 * Pow2(k - 1)

ToWord(x) == x % Pow2(IntWidth)

FromWord(u) == IF u >= Pow2(IntWidth - 1) THEN u - Pow2(IntWidth) ELSE u

RECURSIVE AndWord(_, _)
AndWord(a, b) ==
    IF a = 0 \/ b = 0 THEN 0
    ELSE (a % 2) * (b % 2) + 2 * AndWord(a \div 2, b \div 2)

RECURSIVE OrWord(_, _)
OrWord(a, b) ==
    IF a = 0 THEN b
    ELSE IF b = 0 THEN a
    ELSE (IF a % 2 = 1 \/ b % 2 = 1 THEN 1 ELSE 0)
         + 2 * OrWord(a \div 2, b \div 2)

\* a & b, a | b, ~a, a << k, a >> k on Python integers
And(a, b) == FromWord(AndWord(ToWord(a), ToWord(b)))
Or(a, b) == FromWord(OrWord(ToWord(a), ToWord(b)))
Not(a) == -a - 1
Shl(a, k) == a * Pow2(k)
Shr(a, k) == a \div Pow2(k)

\* int(n / d): truncation toward zero
Trunc(n, d) == IF n >= 0 THEN n \div d ELSE -((-n) \div d)

\* a float, as the rational n / d
Rat(n, d) == <<n, d>>

\* the digits of bin(x)[2:], most significant first
RECURSIVE BinDigits(_)
BinDigits(x) == IF x < 2 THEN <<x>> ELSE Append(BinDigits(x \div 2), x % 2)

\* bin(x)[i] is defined when the string "0b..." has a character at index i
BinHasIndex(x, i) == i < 2 + Len(BinDigits(x))

\* bin(x)[i] for i >= 2, as the digit it shows
BinChar(x, i) == BinDigits(x)[i - 1]

(***************************************************************************)
(* State                                                                   *)
(***************************************************************************)
VARIABLES
    self,       \* the attributes of the driver object
    enablePin,  \* level of the enable pin (0 / 1)
    dev,        \* device registers 0..7: last byte written, -1 if none yet
    writes,     \* bus writes <<address, byte>> issued by the last call
    out,        \* lines printed by the last call, <<text, n, d>>
    err,        \* exception raised by the last call, "none" if it returned
    call,       \* the last call, <<method, argument>>
    again,      \* whether the last call repeated the call before it
    pc,         \* position in __init__/init, then "ready" or "failed"
    nOps,       \* public calls made since construction
    flaky,      \* whether the bus of this run can fail a write
    busFault    \* the bus write of the next call that fails (0: none)

vars == <<self, enablePin, dev, writes, out, err, call, again, pc, nOps,
          flaky, busFault>>

Unset == -1     \* an attribute the object does not have yet

\* __init__, lines 54-100: the attributes before init() runs
NewSelf(outputVoltage, currentLimit, feedbackMode) ==
    [ outputVoltage |-> Rat(outputVoltage, 10),
      outputCurrentLimit |-> currentLimit,
      feedbackMode |-> feedbackMode,
      REF_VOLTAGE_LSB |-> 0,
      REF_VOLTAGE_MSB |-> 0,
      IOUT_LIMIT |-> 228,
      VOUT_SR |-> 1,
      VOUT_FS |-> 3,
      CDC |-> 224,
      MODE |-> 34,
      STATUS |-> 0,
      VREF |-> 0,
      currentLimitEN |-> 1,
      currentLimitSet |-> Rat(100, 1),
      OCP_DELAY |-> 0,
      slewRate |-> 1,
      SR |-> Unset,
      FB_MODE |-> 0,
      INTFB |-> 3,
      INTFB_Val |-> 564,
      SC_Mask |-> 1,
      OCP_MASK |-> 1,
      OVP_MASK |-> 1,
      OCP_Mask |-> Unset,
      OVP_Mask |-> Unset,
      CDC_OPTION |-> 0,
      CDC_SETTING |-> 0,
      OE |-> 0,
      FSWDBL |-> 0,
      HICCUP |-> 1,
      DISCHG |-> 0,
      FPWM |-> 0 ]

Init ==
    /\ \E v \in CtorVoltages, c \in CtorLimits, f \in CtorFeedback :
           self = NewSelf(v, c, f)
    /\ enablePin = 0
    /\ dev = [a \in 0..7 |-> -1]
    /\ writes = <<>>
    /\ out = <<>>
    /\ err = "none"
    /\ call = <<"__init__", 0>>
    /\ again = FALSE
    /\ pc = "scan"
    /\ nOps = 0
    /\ flaky = FALSE
    /\ busFault = 0

\* the same construction on a bus whose writes can fail
InitBus ==
    /\ \E v \in CtorVoltages, c \in CtorLimits, f \in CtorFeedback :
           self = NewSelf(v, c, f)
    /\ enablePin = 0
    /\ dev = [a \in 0..7 |-> -1]
    /\ writes = <<>>
    /\ out = <<>>
    /\ err = "none"
    /\ call = <<"__init__", 0>>
    /\ again = FALSE
    /\ pc = "scan"
    /\ nOps = 0
    /\ flaky = TRUE
    /\ busFault = 0

(***************************************************************************)
(* The methods, as functions of the machine state                          *)
(*   m = [self, pin, dev, writes, out, err, fail]                          *)
(* writes are the bus writes that succeeded; fail is the write of the call *)
(* that the bus fails.  Once an exception is raised the statements after   *)
(* it have no effect.                                                      *)
(***************************************************************************)
Cur == [self |-> self, pin |-> enablePin, dev |-> dev,
        writes |-> <<>>, out |-> <<>>, err |-> "none", fail |-> busFault]

emit(m, text) ==
    IF m.err # "none" THEN m
    ELSE [m EXCEPT !.out = Append(@, <<text, 0, 1>>)]

emitValue(m, text, value) ==
    IF m.err # "none" THEN m
    ELSE [m EXCEPT !.out = Append(@, <<text, value[1], value[2]>>)]

raise(m, exception) ==
    IF m.err # "none" THEN m ELSE [m EXCEPT !.err = exception]

\* lines 139-140: writeto_mem stores the byte in the device register, or
\* raises OSError when the bus transaction fails
setRegister(m, register, registerAddress) ==
    IF m.err # "none" THEN m
    ELSE IF m.fail = Len(m.writes) + 1 THEN raise(m, "OSError")
    ELSE [m EXCEPT !.dev[registerAddress] = register,
                   !.writes = Append(@, <<registerAddress, register>>)]


(***************************************************************************)
(* REF register methods                                                    *)
(***************************************************************************)
\* lines 161-162: int(1.7715*((voltage*_INTFB_Val*1000) - 45)) + 1.  With
\* voltage in tenths of a volt and intfbVal in ten-thousandths this is
\* 17715 * (voltage*intfbVal - 4500) / 10^6, reduced by 20 to stay within
\* the integers of the checker (every _INTFB constant is a multiple of 4)
VrefCode(voltage, intfbVal) ==
    Trunc(3543 * (voltage * (intfbVal \div 4) - 1125), 50000) + 1

\* line 153: (voltage >= 0.8) & (voltage <= 22) == 0
VoltageOutOfBounds(voltage) == ~(voltage >= 8 /\ voltage <= 220)

\* as setOutputVoltage, but the new code is added to the code held
setOutputVoltageAdd(m, voltage) ==
    LET m1 == IF VoltageOutOfBounds(voltage)
              THEN emit(m, "Requested Output Voltage is out of bounds")
              ELSE m
        vref == m.self.VREF + VrefCode(voltage, m.self.INTFB_Val)
        m2 == [m1 EXCEPT !.self.outputVoltage = Rat(voltage, 10),
                         !.self.VREF = vref]
    IN  IF m.self.INTFB = 0
        THEN raise(m2, "ZeroDivisionError")             \* line 163
        ELSE
          LET m3 == [m2 EXCEPT
                       !.self.outputVoltage = Rat(vref, m.self.INTFB),
                       !.self.REF_VOLTAGE_LSB = And(vref, 255),
                       !.self.REF_VOLTAGE_MSB = And(Shr(vref, 8), 7)]
              m4 == setRegister(m3, m3.self.REF_VOLTAGE_LSB,
                                TPS55289_REF_VOLTAGE_LSB_ADDR)
              m5 == setRegister(m4, m4.self.REF_VOLTAGE_MSB,
                                TPS55289_REF_VOLTAGE_MSB_ADDR)
          IN  emitValue(m5, "Voltage Set", m5.self.outputVoltage)

\* lines 151-172
setOutputVoltage(m, voltage) ==
    LET m1 == IF VoltageOutOfBounds(voltage)
              THEN emit(m, "Requested Output Voltage is out of bounds")
              ELSE m
        vref == Or(m.self.VREF, VrefCode(voltage, m.self.INTFB_Val))
        m2 == [m1 EXCEPT !.self.outputVoltage = Rat(voltage, 10),
                         !.self.VREF = vref]
    IN  IF m.self.INTFB = 0
        THEN raise(m2, "ZeroDivisionError")             \* line 163
        ELSE
          LET m3 == [m2 EXCEPT
                       !.self.outputVoltage = Rat(vref, m.self.INTFB),
                       !.self.REF_VOLTAGE_LSB = And(vref, 255),
                       !.self.REF_VOLTAGE_MSB = And(Shr(vref, 8), 7)]
              m4 == setRegister(m3, m3.self.REF_VOLTAGE_LSB,
                                TPS55289_REF_VOLTAGE_LSB_ADDR)
              m5 == setRegister(m4, m4.self.REF_VOLTAGE_MSB,
                                TPS55289_REF_VOLTAGE_MSB_ADDR)
          IN  emitValue(m5, "Voltage Set", m5.self.outputVoltage)

(***************************************************************************)
(* IOUT_LIMIT register methods                                             *)
(***************************************************************************)
\* lines 180-184
enableOutputCurrentLimit(m) ==
    LET m1 == [m EXCEPT !.self.currentLimitEN = 1,
                        !.self.IOUT_LIMIT = Or(@, Shl(1, 7))]
        m2 == setRegister(m1, m1.self.IOUT_LIMIT, TPS55289_IOUT_LIMIT_ADDR)
    IN  emit(m2, "Enabled Current Limit")

\* lines 186-190
disableOutputCurrentLimit(m) ==
    LET m1 == [m EXCEPT !.self.currentLimitEN = 0,
                        !.self.IOUT_LIMIT = And(@, Not(Shl(1, 7)))]
        m2 == setRegister(m1, m1.self.IOUT_LIMIT, TPS55289_IOUT_LIMIT_ADDR)
    IN  emit(m2, "Disabled Current Limit")

\* line 194: (currentLimit%(0.05) != 0) | (currentLimit >= 0.0) |
\* (currentLimit <= 6.35); the last two disjuncts cover every number
CurrentLimitInvalid(currentLimit) ==
    (currentLimit % 5 # 0) \/ (currentLimit >= 0) \/ (currentLimit <= 635)

\* lines 192-206: the register is neither composed nor written
setOutputCurrentLimit(m, currentLimit) ==
    LET m1 == IF CurrentLimitInvalid(currentLimit)
              THEN emit(emit(m, "Invalid Current Limit Setting"),
                        "Valid Current Limits 0.0-6.35A")
              ELSE m
    IN  [m1 EXCEPT !.self.outputCurrentLimit = currentLimit,
                   !.self.currentLimitSet = Rat(currentLimit, 5000)]

(***************************************************************************)
(* VOUT_SR register methods                                                *)
(***************************************************************************)
OCPResponseText(code) ==
    CASE code = 0 -> "OCP Response Time set to: 128uS"
      [] code = 1 -> "OCP Response Time set to: 1024*3 mS"
      [] code = 2 -> "OCP Response Time set to: 1024*6 mS"
      [] code = 3 -> "OCP Response Time set to: 1024*12 mS"

\* lines 211-236
setOCPResponseTime(m, OCPResponseTime) ==
    LET m1 == IF OCPResponseTime \in 0..3
              THEN emit([m EXCEPT
                          !.self.OCP_DELAY = OCPResponseTime,
                          !.self.VOUT_SR =
                              Or(And(@, Not(Shl(3, 4))),
                                 Shl(OCPResponseTime, 4))],
                        OCPResponseText(OCPResponseTime))
              ELSE emit(emit(m, "Invalid Response Time Selected"),
                        "Valid Times are 0b00-0b11")
    IN  setRegister(m1, m1.self.VOUT_SR, TPS55289_VOUT_SR_ADDR)

SlewRateText(code) ==
    CASE code = 0 -> "Slew Rate set to 1.25mV/uS"
      [] code = 1 -> "Slew Rate set to 2.5mV/uS"
      [] code = 2 -> "Slew Rate set to 5mV/uS"
      [] code = 3 -> "Slew Rate set to 10mV/uS"

\* lines 240-265: every branch stores the rate in _SR and rewrites bits 4-5
\* of _VOUT_SR from _OCP_DELAY
setSlewRate(m, slewRate) ==
    LET m1 == IF slewRate \in 0..3
              THEN emit([m EXCEPT
                          !.self.SR = slewRate,
                          !.self.VOUT_SR =
                              Or(And(@, Not(Shl(3, 4))),
                                 Shl(m.self.OCP_DELAY, 4))],
                        SlewRateText(slewRate))
              ELSE emit(emit(m, "Invalid Slew Rate Requested"),
                        "Valid Rates are 0b00-0b11")
    IN  setRegister(m1, m1.self.VOUT_SR, TPS55289_VOUT_SR_ADDR)

(***************************************************************************)
(* VOUT_FS register methods                                                *)
(***************************************************************************)
\* lines 270-280
setFeedbackMechanism(m, Mechanism) ==
    LET m1 == IF Mechanism = "external"
              THEN emit([m EXCEPT !.self.FB_MODE = 1],
                        "Feedback Mechanism changed to External Mode")
              ELSE IF Mechanism = "internal"
              THEN emit([m EXCEPT !.self.FB_MODE = 0],
                        "Feedback Mechanism changed to Internal Mode")
              ELSE emit(m, "Invalid Feedback Mechanism Specified")
        m2 == [m1 EXCEPT !.self.VOUT_FS = Or(@, Shl(m1.self.FB_MODE, 7))]
    IN  setRegister(m2, m2.self.VOUT_FS, TPS55289_VOUT_FS_ADDR)

\* lines 283-303
setStepSize(m, stepSize) ==
    LET m1 == IF stepSize = 25
              THEN emit([m EXCEPT !.self.INTFB = 0,
                                  !.self.INTFB_Val = INTFB_00],
                        "Internal Step Size Changed to 2.5mV")
              ELSE IF stepSize = 50
              THEN emit([m EXCEPT !.self.INTFB = 1,
                                  !.self.INTFB_Val = INTFB_01],
                        "Internal Step Size Changed to 5mV")
              ELSE IF stepSize = 75
              THEN emit([m EXCEPT !.self.INTFB = 2,
                                  !.self.INTFB_Val = INTFB_10],
                        "Internal Step Size Changed to 7.5mV")
              ELSE IF stepSize = 100
              THEN emit([m EXCEPT !.self.INTFB = 3,
                                  !.self.INTFB_Val = INTFB_11],
                        "Internal Step Size Changed to 10mV")
              ELSE emit(m, "Invalid Step Size specified")
        m2 == [m1 EXCEPT !.self.VOUT_FS = Or(@, m1.self.INTFB)]
    IN  setRegister(m2, m2.self.VOUT_FS, TPS55289_VOUT_FS_ADDR)

(***************************************************************************)
(* CDC register methods                                                    *)
(***************************************************************************)
\* lines 307-311
enableSCIndication(m) ==
    LET m1 == [m EXCEPT !.self.SC_Mask = 1,
                        !.self.CDC = Or(@, Shl(1, 7))]
        m2 == setRegister(m1, m1.self.CDC, TPS55289_CDC_ADDR)
    IN  emit(m2, "Enabled Short Circuit Indication")

\* lines 313-317
disableSCIndication(m) ==
    LET m1 == [m EXCEPT !.self.SC_Mask = 0,
                        !.self.CDC = And(@, Not(Shl(1, 7)))]
        m2 == setRegister(m1, m1.self.CDC, TPS55289_CDC_ADDR)
    IN  emit(m2, "Disabled Short Circuit Indication")

\* lines 319-323
enableOCPIndication(m) ==
    LET m1 == [m EXCEPT !.self.OCP_MASK = 1,
                        !.self.CDC = Or(@, Shl(1, 6))]
        m2 == setRegister(m1, m1.self.CDC, TPS55289_CDC_ADDR)
    IN  emit(m2, "Enabled Overcurrent Indication")

\* lines 325-329: assigns _OCP_Mask, not _OCP_MASK
disableOCPIndication(m) ==
    LET m1 == [m EXCEPT !.self.OCP_Mask = 0,
                        !.self.CDC = And(@, Not(Shl(1, 6)))]
        m2 == setRegister(m1, m1.self.CDC, TPS55289_CDC_ADDR)
    IN  emit(m2, "Disabled Overcurrent Indication")

\* lines 331-335
enableOVPIndication(m) ==
    LET m1 == [m EXCEPT !.self.OVP_MASK = 1,
                        !.self.CDC = Or(@, Shl(1, 5))]
        m2 == setRegister(m1, m1.self.CDC, TPS55289_CDC_ADDR)
    IN  emit(m2, "Enabled Overvoltage Indication")

\* lines 337-341: assigns _OVP_Mask, not _OVP_MASK
disableOVPIndication(m) ==
    LET m1 == [m EXCEPT !.self.OVP_Mask = 0,
                        !.self.CDC = And(@, Not(Shl(1, 5)))]
        m2 == setRegister(m1, m1.self.CDC, TPS55289_CDC_ADDR)
    IN  emit(m2, "Disabled Overvoltage Indication")

\* lines 343-354
setCDCOption(m, cdcOption) ==
    LET m1 == IF cdcOption = 0
              THEN emit([m EXCEPT !.self.CDC_OPTION = 0,
                                  !.self.CDC = And(@, Not(Shl(1, 3)))],
                        "Internal CDC Compensation Mode Selected")
              ELSE IF cdcOption = 1
              THEN emit([m EXCEPT !.self.CDC_OPTION = 1,
                                  !.self.CDC = Or(@, Shl(1, 3))],
                        "External CDC Compensation Mode Selected")
              ELSE emit(m, "Invalid CDC Compensation Mode Requested")
    IN  setRegister(m1, m1.self.CDC, TPS55289_CDC_ADDR)

\* as setCDCCompensation, but the register is replaced by the field
setCDCCompensationClobber(m, Compensation) ==
    LET m1 == IF Compensation \in 0..7
              THEN [m EXCEPT !.self.CDC_SETTING = Compensation,
                             !.self.CDC = Compensation]
              ELSE emit(emit(m, "Invalid Compensation requested"),
                        "Valid Compensation voltages are 0.0-0.7")
        m2 == setRegister(m1, m1.self.CDC, TPS55289_CDC_ADDR)
    IN  emitValue(m2, "CDC Compensation set to", Rat(Compensation, 10))

\* lines 356-394: Compensation 0.0, 0.1, ... 0.7 selects setting 0 .. 7
setCDCCompensation(m, Compensation) ==
    LET m1 == IF Compensation \in 0..7
              THEN [m EXCEPT !.self.CDC_SETTING = Compensation,
                             !.self.CDC = Or(And(@, Not(7)), Compensation)]
              ELSE emit(emit(m, "Invalid Compensation requested"),
                        "Valid Compensation voltages are 0.0-0.7")
        m2 == setRegister(m1, m1.self.CDC, TPS55289_CDC_ADDR)
    IN  emitValue(m2, "CDC Compensation set to", Rat(Compensation, 10))

(***************************************************************************)
(* MODE register methods                                                   *)
(***************************************************************************)
\* enable() with the pin left alone, as if line 401 were missing
enableRegisterOnly(m) ==
    LET m1 == [m EXCEPT !.self.OE = 1,
                        !.self.MODE = Or(@, Shl(1, 7))]
        m2 == setRegister(m1, m1.self.MODE, TPS55289_MODE_ADDR)
        m3 == emit(m2, "Channel turned ON")
        m4 == emitValue(m3, "Voltage Set", m3.self.outputVoltage)
    IN  emitValue(m4, "Current Limit", Rat(m4.self.outputCurrentLimit, 100))

\* lines 400-407
enable(m) ==
    LET m1 == [m EXCEPT !.pin = 1,
                        !.self.OE = 1,
                        !.self.MODE = Or(@, Shl(1, 7))]
        m2 == setRegister(m1, m1.self.MODE, TPS55289_MODE_ADDR)
        m3 == emit(m2, "Channel turned ON")
        m4 == emitValue(m3, "Voltage Set", m3.self.outputVoltage)
    IN  emitValue(m4, "Current Limit", Rat(m4.self.outputCurrentLimit, 100))

\* lines 410-415
disable(m) ==
    LET m1 == [m EXCEPT !.pin = 0,
                        !.self.OE = 0,
                        !.self.MODE = And(@, Not(Shl(1, 7)))]
        m2 == setRegister(m1, m1.self.MODE, TPS55289_MODE_ADDR)
    IN  emit(m2, "Channel turned OFF")

\* lines 417-430
FSWDoubling(m, input) ==
    LET m1 == IF input = 0
              THEN emit([m EXCEPT !.self.FSWDBL = 0,
                                  !.self.MODE = And(@, Not(Shl(1, 6)))],
                        "Frequency Unchanged")
              ELSE IF input = 1
              THEN emit([m EXCEPT !.self.FSWDBL = 1,
                                  !.self.MODE = Or(@, Shl(1, 6))],
                        "Frequency Doubled during Buck-Boost Operation")
              ELSE emit(m, "Invalid Frequency doubling mode selected")
    IN  setRegister(m1, m1.self.MODE, TPS55289_MODE_ADDR)

\* lines 432-436
enableHiccupMode(m) ==
    LET m1 == [m EXCEPT !.self.HICCUP = 1,
                        !.self.MODE = Or(@, Shl(1, 5))]
        m2 == setRegister(m1, m1.self.MODE, TPS55289_MODE_ADDR)
    IN  emit(m2, "Enabled Hiccup Mode")

\* lines 438-442
disableHiccupMode(m) ==
    LET m1 == [m EXCEPT !.self.HICCUP = 0,
                        !.self.MODE = And(@, Not(Shl(1, 5)))]
        m2 == setRegister(m1, m1.self.MODE, TPS55289_MODE_ADDR)
    IN  emit(m2, "Disabled Hiccup Mode")

\* lines 444-448
enableVOUTDischarge(m) ==
    LET m1 == [m EXCEPT !.self.DISCHG = 1,
                        !.self.MODE = Or(@, Shl(1, 4))]
        m2 == setRegister(m1, m1.self.MODE, TPS55289_MODE_ADDR)
    IN  emit(m2, "Enabled VOUT Discharge")

\* lines 450-454: line 452 is self._MODE |= (1 << 4)
disableVOUTDischarge(m) ==
    LET m1 == [m EXCEPT !.self.DISCHG = 0,
                        !.self.MODE = Or(@, Shl(1, 4))]
        m2 == setRegister(m1, m1.self.MODE, TPS55289_MODE_ADDR)
    IN  emit(m2, "Disabled VOUT Discharge")

\* lines 456-469
FSWOperatingMode(m, input) ==
    LET m1 == IF input = 0
              THEN emit([m EXCEPT !.self.FPWM = 0,
                                  !.self.MODE = And(@, Not(Shl(1, 1)))],
                        "PFM Operating Mode Selected at Light Load Condition")
              ELSE IF input = 1
              THEN emit([m EXCEPT !.self.FPWM = 1,
                                  !.self.MODE = Or(@, Shl(1, 1))],
                        "FPWM Operating Mode Selected at Light Load Condition")
              ELSE emit(m, "Invalid Operating Mode Selected")
    IN  setRegister(m1, m1.self.MODE, TPS55289_MODE_ADDR)

(***************************************************************************)
(* STATUS register methods                                                 *)
(***************************************************************************)
\* the fault test with the shift off by one: (self._STATUS >> 5) & 0x07 != 0
HasFaultShift5(status) == And(Shr(status, 5), 7) # 0

\* line 476: (self._STATUS >> 4) & 0x07 != 0
HasFault(status) == And(Shr(status, 4), 7) # 0

\* lines 478-482: bin(self._STATUS)[i] == 1 compares a one-character string
\* with the integer 1, which are never equal
BinCharEqualsOne(status, i) == FALSE

\* lines 477-486, the body of the fault branch
faultBranch(m, status) ==
    LET m1 == disable(m)
        m2 == IF ~BinHasIndex(status, 3) THEN raise(m1, "IndexError")
              ELSE IF BinCharEqualsOne(status, 3)
              THEN emit(m1, "Short Circuit Detected on Output")
              ELSE IF ~BinHasIndex(status, 4) THEN raise(m1, "IndexError")
              ELSE IF BinCharEqualsOne(status, 4)
              THEN emit(m1, "Overcurrent Event Detected")
              ELSE IF ~BinHasIndex(status, 5) THEN raise(m1, "IndexError")
              ELSE IF BinCharEqualsOne(status, 5)
              THEN emit(m1, "Overvoltage Event Detected")
              ELSE m1
    IN  IF m2.err # "none" THEN m2
        ELSE emit(m2, "Enable channel manually after resolving hardware issues")

\* lines 492-499
OperatingModeText(status) ==
    IF And(status, 3) = 0 THEN "Operating Mode = Boost"
    ELSE IF And(status, 3) = 1 THEN "Operating Mode = Buck"
    ELSE IF And(status, 3) = 2 THEN "Operating Mode = Buck-Boost"
    ELSE "DC-DC Converter is in invalid state"

\* lines 488-499, the body of the debug branch
debugBranch(m, status) ==
    IF ~BinHasIndex(status, 3) THEN raise(m, "IndexError")
    ELSE
      LET m1 == emitValue(m, "Short Circuit Status",
                          Rat(BinChar(status, 3), 1))
      IN  IF ~BinHasIndex(status, 4) THEN raise(m1, "IndexError")
          ELSE
            LET m2 == emitValue(m1, "Overcurrent Status",
                                Rat(BinChar(status, 4), 1))
            IN  IF ~BinHasIndex(status, 5) THEN raise(m2, "IndexError")
                ELSE
                  LET m3 == emitValue(m2, "Overvoltage Status",
                                      Rat(BinChar(status, 5), 1))
                  IN  emit(m3, OperatingModeText(status))

\* lines 474-499; status is the byte the bus read of register 0x07 returns
readStatusRegister(m, status, debugOrMonitor) ==
    LET m1 == [m EXCEPT !.self.STATUS = status]
        m2 == IF HasFault(status) THEN faultBranch(m1, status) ELSE m1
    IN  IF m2.err # "none" THEN m2
        ELSE IF debugOrMonitor = "debug" THEN debugBranch(m2, status)
        ELSE m2

(***************************************************************************)
(* Actions                                                                 *)
(***************************************************************************)
\* the state a call leaves
Do(m, c) ==
    /\ self' = m.self
    /\ enablePin' = m.pin
    /\ dev' = m.dev
    /\ writes' = m.writes
    /\ out' = m.out
    /\ err' = m.err
    /\ call' = c
    /\ again' = (c = call)
    /\ flaky' = flaky
    /\ busFault' \in IF flaky THEN BusFaults ELSE {0}

\* one statement of init(), lines 104-137; an exception ends construction
InitStep(at, m, c, next) ==
    /\ pc = at
    /\ Do(m, c)
    /\ pc' = IF m.err = "none" THEN next ELSE "failed"
    /\ UNCHANGED nOps

\* lines 105-106: the probe only prints a warning
InitScan ==
    \E found \in BOOLEAN :
        InitStep("scan",
                 IF found THEN Cur ELSE emit(Cur, "TPS55289 not found"),
                 <<"scan", 0>>, "disable")

\* line 130 names the method without calling it
InitDisableVOUTDischarge ==
    InitStep("disableVOUTDischarge", Cur, <<"disableVOUTDischarge", 0>>,
             "FSWOperatingMode")

\* line 133: the status byte is whatever the device returns
InitReadStatus ==
    \E status \in InitStatusBytes :
        InitStep("readStatusRegister",
                 readStatusRegister(Cur, status, "debug"),
                 <<"readStatusRegister", "debug">>, "enable")

\* lines 110-137
init ==
    \/ InitScan
    \/ InitStep("disable", disable(Cur), <<"disable", 0>>,
                "setOutputVoltage")
    \/ InitStep("setOutputVoltage",
                setOutputVoltage(Cur, self.outputVoltage[1]),
                <<"setOutputVoltage", self.outputVoltage[1]>>,
                "enableOutputCurrentLimit")
    \/ InitStep("enableOutputCurrentLimit", enableOutputCurrentLimit(Cur),
                <<"enableOutputCurrentLimit", 0>>, "setOutputCurrentLimit")
    \/ InitStep("setOutputCurrentLimit",
                setOutputCurrentLimit(Cur, self.outputCurrentLimit),
                <<"setOutputCurrentLimit", self.outputCurrentLimit>>,
                "setOCPResponseTime")
    \/ InitStep("setOCPResponseTime", setOCPResponseTime(Cur, 0),
                <<"setOCPResponseTime", 0>>, "setSlewRate")
    \/ InitStep("setSlewRate", setSlewRate(Cur, 1),
                <<"setSlewRate", 1>>, "setFeedbackMechanism")
    \/ InitStep("setFeedbackMechanism",
                setFeedbackMechanism(Cur, "internal"),
                <<"setFeedbackMechanism", "internal">>, "setStepSize")
    \/ InitStep("setStepSize", setStepSize(Cur, 100),
                <<"setStepSize", 100>>, "enableSCIndication")
    \/ InitStep("enableSCIndication", enableSCIndication(Cur),
                <<"enableSCIndication", 0>>, "enableOCPIndication")
    \/ InitStep("enableOCPIndication", enableOCPIndication(Cur),
                <<"enableOCPIndication", 0>>, "enableOVPIndication")
    \/ InitStep("enableOVPIndication", enableOVPIndication(Cur),
                <<"enableOVPIndication", 0>>, "setCDCOption")
    \/ InitStep("setCDCOption", setCDCOption(Cur, 0),
                <<"setCDCOption", 0>>, "setCDCCompensation")
    \/ InitStep("setCDCCompensation", setCDCCompensation(Cur, 0),
                <<"setCDCCompensation", 0>>, "FSWDoubling")
    \/ InitStep("FSWDoubling", FSWDoubling(Cur, 0),
                <<"FSWDoubling", 0>>, "enableHiccupMode")
    \/ InitStep("enableHiccupMode", enableHiccupMode(Cur),
                <<"enableHiccupMode", 0>>, "disableVOUTDischarge")
    \/ InitDisableVOUTDischarge
    \/ InitStep("FSWOperatingMode", FSWOperatingMode(Cur, 0),
                <<"FSWOperatingMode", 0>>, "readStatusRegister")
    \/ InitReadStatus
    \/ InitStep("enable", enable(Cur), <<"enable", 0>>, "ready")

\* a call of a public method on the constructed driver
Public(m, c) ==
    /\ pc = "ready"
    /\ nOps < MaxOps
    /\ nOps' = nOps + 1
    /\ Do(m, c)
    /\ UNCHANGED pc

CallSetOutputVoltage ==
    \E voltage \in Voltages :
        Public(setOutputVoltage(Cur, voltage), <<"setOutputVoltage", voltage>>)

CallEnableOutputCurrentLimit ==
    Public(enableOutputCurrentLimit(Cur), <<"enableOutputCurrentLimit", 0>>)

CallDisableOutputCurrentLimit ==
    Public(disableOutputCurrentLimit(Cur), <<"disableOutputCurrentLimit", 0>>)

CallSetOutputCurrentLimit ==
    \E currentLimit \in Limits :
        Public(setOutputCurrentLimit(Cur, currentLimit),
               <<"setOutputCurrentLimit", currentLimit>>)

CallSetOCPResponseTime ==
    \E code \in Codes2 :
        Public(setOCPResponseTime(Cur, code), <<"setOCPResponseTime", code>>)

CallSetSlewRate ==
    \E code \in Codes2 :
        Public(setSlewRate(Cur, code), <<"setSlewRate", code>>)

CallSetFeedbackMechanism ==
    \E Mechanism \in Mechanisms :
        Public(setFeedbackMechanism(Cur, Mechanism),
               <<"setFeedbackMechanism", Mechanism>>)

CallSetStepSize ==
    \E stepSize \in StepSizes :
        Public(setStepSize(Cur, stepSize), <<"setStepSize", stepSize>>)

CallEnableSCIndication ==
    Public(enableSCIndication(Cur), <<"enableSCIndication", 0>>)

CallDisableSCIndication ==
    Public(disableSCIndication(Cur), <<"disableSCIndication", 0>>)

CallEnableOCPIndication ==
    Public(enableOCPIndication(Cur), <<"enableOCPIndication", 0>>)

CallDisableOCPIndication ==
    Public(disableOCPIndication(Cur), <<"disableOCPIndication", 0>>)

CallEnableOVPIndication ==
    Public(enableOVPIndication(Cur), <<"enableOVPIndication", 0>>)

CallDisableOVPIndication ==
    Public(disableOVPIndication(Cur), <<"disableOVPIndication", 0>>)

CallSetCDCOption ==
    \E cdcOption \in Options :
        Public(setCDCOption(Cur, cdcOption), <<"setCDCOption", cdcOption>>)

CallSetCDCCompensation ==
    \E Compensation \in Compensations :
        Public(setCDCCompensation(Cur, Compensation),
               <<"setCDCCompensation", Compensation>>)

CallEnable == Public(enable(Cur), <<"enable", 0>>)

CallDisable == Public(disable(Cur), <<"disable", 0>>)

CallFSWDoubling ==
    \E input \in Options :
        Public(FSWDoubling(Cur, input), <<"FSWDoubling", input>>)

CallEnableHiccupMode ==
    Public(enableHiccupMode(Cur), <<"enableHiccupMode", 0>>)

CallDisableHiccupMode ==
    Public(disableHiccupMode(Cur), <<"disableHiccupMode", 0>>)

CallEnableVOUTDischarge ==
    Public(enableVOUTDischarge(Cur), <<"enableVOUTDischarge", 0>>)

CallDisableVOUTDischarge ==
    Public(disableVOUTDischarge(Cur), <<"disableVOUTDischarge", 0>>)

CallFSWOperatingMode ==
    \E input \in Options :
        Public(FSWOperatingMode(Cur, input), <<"FSWOperatingMode", input>>)

CallReadStatusRegister ==
    \E status \in StatusBytes, debugOrMonitor \in Modes :
        Public(readStatusRegister(Cur, status, debugOrMonitor),
               <<"readStatusRegister", debugOrMonitor>>)

Next ==
    \/ init
    \/ CallSetOutputVoltage
    \/ CallEnableOutputCurrentLimit
    \/ CallDisableOutputCurrentLimit
    \/ CallSetOutputCurrentLimit
    \/ CallSetOCPResponseTime
    \/ CallSetSlewRate
    \/ CallSetFeedbackMechanism
    \/ CallSetStepSize
    \/ CallEnableSCIndication
    \/ CallDisableSCIndication
    \/ CallEnableOCPIndication
    \/ CallDisableOCPIndication
    \/ CallEnableOVPIndication
    \/ CallDisableOVPIndication
    \/ CallSetCDCOption
    \/ CallSetCDCCompensation
    \/ CallEnable
    \/ CallDisable
    \/ CallFSWDoubling
    \/ CallEnableHiccupMode
    \/ CallDisableHiccupMode
    \/ CallEnableVOUTDischarge
    \/ CallDisableVOUTDischarge
    \/ CallFSWOperatingMode
    \/ CallReadStatusRegister

Spec == Init /\ [][Next]_vars

(***************************************************************************)
(* Sessions on one register: after construction the caller keeps calling   *)
(* the setters of one register group, without a limit on the number of     *)
(* calls, so that every value the group can give its registers is reached. *)
(***************************************************************************)
\* the register group a method belongs to, by the section of the source
\* that defines it
GroupOf(method) ==
    CASE method = "setOutputVoltage" -> "REF_VOLTAGE"
      [] method \in {"setFeedbackMechanism", "setStepSize"} -> "VOUT_FS"
      [] method \in {"enableOutputCurrentLimit", "disableOutputCurrentLimit",
                     "setOutputCurrentLimit"} -> "IOUT_LIMIT"
      [] method \in {"setOCPResponseTime", "setSlewRate"} -> "VOUT_SR"
      [] method \in {"enableSCIndication", "disableSCIndication",
                     "enableOCPIndication", "disableOCPIndication",
                     "enableOVPIndication", "disableOVPIndication",
                     "setCDCOption", "setCDCCompensation"} -> "CDC"
      [] OTHER -> "MODE"

\* a call of a public method that stays in the group of the session; nOps
\* only tells that the session has begun
Session(m, c) ==
    /\ pc = "ready"
    /\ nOps = 0 \/ GroupOf(call[1]) = GroupOf(c[1])
    /\ nOps' = 1
    /\ Do(m, c)
    /\ UNCHANGED pc

SessionREF ==
    \E voltage \in Voltages :
      Session(setOutputVoltage(Cur, voltage), <<"setOutputVoltage", voltage>>)

SessionFS ==
    \/ \E Mechanism \in Mechanisms :
          Session(setFeedbackMechanism(Cur, Mechanism),
                  <<"setFeedbackMechanism", Mechanism>>)
    \/ \E stepSize \in StepSizes :
          Session(setStepSize(Cur, stepSize), <<"setStepSize", stepSize>>)

SessionIOUT ==
    \/ Session(enableOutputCurrentLimit(Cur),
               <<"enableOutputCurrentLimit", 0>>)
    \/ Session(disableOutputCurrentLimit(Cur),
               <<"disableOutputCurrentLimit", 0>>)
    \/ \E currentLimit \in Limits :
          Session(setOutputCurrentLimit(Cur, currentLimit),
                  <<"setOutputCurrentLimit", currentLimit>>)

SessionSR ==
    \/ \E code \in Codes2 :
          Session(setOCPResponseTime(Cur, code),
                  <<"setOCPResponseTime", code>>)
    \/ \E code \in Codes2 :
          Session(setSlewRate(Cur, code), <<"setSlewRate", code>>)

SessionCDC ==
    \/ Session(enableSCIndication(Cur), <<"enableSCIndication", 0>>)
    \/ Session(disableSCIndication(Cur), <<"disableSCIndication", 0>>)
    \/ Session(enableOCPIndication(Cur), <<"enableOCPIndication", 0>>)
    \/ Session(disableOCPIndication(Cur), <<"disableOCPIndication", 0>>)
    \/ Session(enableOVPIndication(Cur), <<"enableOVPIndication", 0>>)
    \/ Session(disableOVPIndication(Cur), <<"disableOVPIndication", 0>>)
    \/ \E cdcOption \in Options :
          Session(setCDCOption(Cur, cdcOption), <<"setCDCOption", cdcOption>>)
    \/ \E Compensation \in Compensations :
          Session(setCDCCompensation(Cur, Compensation),
                  <<"setCDCCompensation", Compensation>>)

SessionMODE ==
    \/ Session(enable(Cur), <<"enable", 0>>)
    \/ Session(disable(Cur), <<"disable", 0>>)
    \/ \E input \in Options :
          Session(FSWDoubling(Cur, input), <<"FSWDoubling", input>>)
    \/ Session(enableHiccupMode(Cur), <<"enableHiccupMode", 0>>)
    \/ Session(disableHiccupMode(Cur), <<"disableHiccupMode", 0>>)
    \/ Session(enableVOUTDischarge(Cur), <<"enableVOUTDischarge", 0>>)
    \/ Session(disableVOUTDischarge(Cur), <<"disableVOUTDischarge", 0>>)
    \/ \E input \in Options :
          Session(FSWOperatingMode(Cur, input), <<"FSWOperatingMode", input>>)

NextSession ==
    \/ init
    \/ SessionREF
    \/ SessionFS
    \/ SessionIOUT
    \/ SessionSR
    \/ SessionCDC
    \/ SessionMODE

SpecSession == Init /\ [][NextSession]_vars

\* the driver on a bus whose writes can fail
SpecBus == InitBus /\ [][Next]_vars

(***************************************************************************)
(* Properties                                                              *)
(***************************************************************************)
\* bit k of the byte x, and the bits lo .. lo+width-1 of x
Bit(x, k) == (x \div Pow2(k)) % 2
Field(x, lo, width) == (x \div Pow2(lo)) % Pow2(width)

Printed(lines, text) == \E i \in DOMAIN lines : lines[i][1] = text

InRange(voltage) == voltage >= 8 /\ voltage <= 220

\* the 11-bit code the two reference register bytes hold
RegisterCode(s) == s.REF_VOLTAGE_LSB + 256 * s.REF_VOLTAGE_MSB

\* the step size the 2-bit code selects, in tenths of a millivolt
StepOf(intfb) == 25 * (intfb + 1)

\* round((amps * 0.01) / (0.5 / 128)) for amps in hundredths of an amp
DocumentedLimitCode(currentLimit) == (32 * currentLimit + 625) \div 1250

\* C1: setOutputVoltage(v) with v outside [0.8, 22.0] reports an out-of-range
\* error, leaves the reference code and both reference registers (shadow
\* and device) as they were, and issues no bus write.
C1_OutOfRangeVoltageRejected ==
    [][ (call'[1] = "setOutputVoltage" /\ ~InRange(call'[2]))
        => /\ Printed(out', "Requested Output Voltage is out of bounds")
           /\ self'.VREF = self.VREF
           /\ self'.REF_VOLTAGE_LSB = self.REF_VOLTAGE_LSB
           /\ self'.REF_VOLTAGE_MSB = self.REF_VOLTAGE_MSB
           /\ dev'[0] = dev[0]
           /\ dev'[1] = dev[1]
           /\ writes' = <<>> ]_vars

\* C2: a status read that finds a fault bit (bits 4-6) set returns with the
\* pin off, MODE bit 7 clear and that MODE byte written to address 0x06, in
\* both modes; a status read that finds none changes neither pin nor MODE.
C2_FaultDisablesOutput ==
    [][ call'[1] = "readStatusRegister"
        => IF Field(self'.STATUS, 4, 3) # 0
           THEN /\ err' = "none"
                /\ enablePin' = 0
                /\ Bit(self'.MODE, 7) = 0
                /\ dev'[6] = self'.MODE
                /\ \E i \in DOMAIN writes' : writes'[i] = <<6, self'.MODE>>
           ELSE /\ enablePin' = enablePin
                /\ self'.MODE = self.MODE ]_vars

\* C2 witness: a public status read found only bit 4 set and switched the
\* enabled output off.
C2_Witness ==
    /\ pc = "ready"
    /\ nOps = 1
    /\ call[1] = "readStatusRegister"
    /\ self.STATUS = 16
    /\ enablePin = 0
    /\ Bit(self.MODE, 7) = 0

\* C3: once constructed, after every completed public call the enable pin
\* is on exactly when bit 7 of the MODE shadow register is 1.
C3_PinMatchesModeBit7 ==
    pc = "ready" => (enablePin = 1 <=> Bit(self.MODE, 7) = 1)

\* C3 witness: a public disable call switched off the output that init()
\* had enabled.
C3_Witness ==
    /\ pc = "ready"
    /\ nOps = 1
    /\ call[1] = "disable"
    /\ enablePin = 0
    /\ Bit(self.MODE, 7) = 0

\* C4: a setOutputVoltage call with a voltage in [0.8, 22.0], made when the
\* reference code is in [0, 2047], leaves the reference code in [0, 2047]
\* and the two reference register bytes reconstructing it.
C4_ReferenceCodeInRange ==
    [][ (call'[1] = "setOutputVoltage" /\ InRange(call'[2])
         /\ self.VREF \in 0..2047)
        => /\ self'.VREF \in 0..2047
           /\ RegisterCode(self') = self'.VREF ]_vars

\* C5: setOutputVoltage(v) with v in [0.8, 22.0] completes without error at
\* every step size, and the voltage it reports is the written reference code
\* times the step size and lies within one step of v.
C5_EffectiveVoltageWithinOneStep ==
    [][ (pc = "ready" /\ call'[1] = "setOutputVoltage" /\ InRange(call'[2]))
        => /\ err' = "none"
           /\ \E i \in DOMAIN out' :
                /\ out'[i][1] = "Voltage Set"
                /\ out'[i][2] * 10000
                     = out'[i][3] * RegisterCode(self') * StepOf(self'.INTFB)
                /\ out'[i][2] * 10000 - call'[2] * 1000 * out'[i][3]
                     <= StepOf(self'.INTFB) * out'[i][3]
                /\ call'[2] * 1000 * out'[i][3] - out'[i][2] * 10000
                     <= StepOf(self'.INTFB) * out'[i][3] ]_vars

\* C6: setOutputVoltage(v) with v in [0.8, 22.0] issues exactly two bus
\* writes: the low byte of the reference code to 0x00, then the high byte,
\* with its upper 5 bits 0, to 0x01.
C6_TwoWritesLowThenHigh ==
    [][ (call'[1] = "setOutputVoltage" /\ InRange(call'[2]))
        => /\ Len(writes') = 2
           /\ writes'[1] = <<0, self'.VREF % 256>>
           /\ writes'[2] = <<1, (self'.VREF \div 256) % 8>>
           /\ writes'[2][2] \div 8 = 0 ]_vars

\* C7: setOutputCurrentLimit leaves bit 7 of IOUT_LIMIT unchanged; enabling
\* or disabling the current limit changes only bit 7 and leaves bits 0-6
\* equal to the code of the last setOutputCurrentLimit call.
C7_LimitAndEnableIndependent ==
    [][ pc = "ready"
        => /\ call'[1] = "setOutputCurrentLimit"
                => Bit(self'.IOUT_LIMIT, 7) = Bit(self.IOUT_LIMIT, 7)
           /\ call'[1] \in {"enableOutputCurrentLimit",
                            "disableOutputCurrentLimit"}
                => /\ Field(self'.IOUT_LIMIT, 0, 7)
                        = Field(self.IOUT_LIMIT, 0, 7)
                   /\ Field(self'.IOUT_LIMIT, 0, 7)
                        = DocumentedLimitCode(self'.outputCurrentLimit)
      ]_vars

\* C8: after setOutputCurrentLimit(a), a in [0.0, 6.35] on the 0.05 A grid,
\* bits 0-6 of IOUT_LIMIT hold the documented 7-bit code of a and the
\* register byte has been written to address 0x02.
C8_LimitCodeWritten ==
    [][ (call'[1] = "setOutputCurrentLimit"
         /\ call'[2] \in 0..635 /\ call'[2] % 5 = 0)
        => /\ Field(self'.IOUT_LIMIT, 0, 7) = DocumentedLimitCode(call'[2])
           /\ writes' = << <<2, self'.IOUT_LIMIT>> >> ]_vars

\* C9: setOCPResponseTime(a) puts a in the OCP-delay field (bits 4-5) of
\* VOUT_SR and setSlewRate(b) puts b in the slew-rate field (bits 0-1), for
\* a, b in 0..3; neither changes the other's field.
C9_SlewAndOCPFieldsDisjoint ==
    [][ /\ (call'[1] = "setOCPResponseTime" /\ call'[2] \in 0..3)
            => /\ Field(self'.VOUT_SR, 4, 2) = call'[2]
               /\ Field(self'.VOUT_SR, 0, 2) = Field(self.VOUT_SR, 0, 2)
        /\ (call'[1] = "setSlewRate" /\ call'[2] \in 0..3)
            => /\ Field(self'.VOUT_SR, 0, 2) = call'[2]
               /\ Field(self'.VOUT_SR, 4, 2) = Field(self.VOUT_SR, 4, 2)
      ]_vars

\* a setter call with an argument outside its valid set
InvalidCall(c) ==
    \/ c[1] \in {"setSlewRate", "setOCPResponseTime"} /\ c[2] \notin 0..3
    \/ c[1] = "setFeedbackMechanism" /\ c[2] \notin {"internal", "external"}
    \/ c[1] = "setStepSize" /\ c[2] \notin {25, 50, 75, 100}
    \/ c[1] = "setCDCCompensation" /\ c[2] \notin 0..7
    \/ c[1] = "setOutputCurrentLimit" /\ c[2] \notin 0..635

\* C10: a setter called with an invalid argument changes no shadow register
\* and no other driver state, and issues no bus write.
C10_InvalidArgumentRejected ==
    [][ InvalidCall(call')
        => /\ self' = self
           /\ enablePin' = enablePin
           /\ dev' = dev
           /\ writes' = <<>> ]_vars

(***************************************************************************)
(* Bit fields of the VOUT_FS, CDC and MODE registers                       *)
(***************************************************************************)
\* the seven shadow registers of the driver, by register address
Shadow(s) ==
    [a \in 0..6 |->
       CASE a = 0 -> s.REF_VOLTAGE_LSB
         [] a = 1 -> s.REF_VOLTAGE_MSB
         [] a = 2 -> s.IOUT_LIMIT
         [] a = 3 -> s.VOUT_SR
         [] a = 4 -> s.VOUT_FS
         [] a = 5 -> s.CDC
         [] a = 6 -> s.MODE]

\* the bit-field mutators of VOUT_FS, CDC and MODE: the address of the
\* register and the bits of the field the method is documented to change
FieldOf(method) ==
    CASE method = "setFeedbackMechanism" -> <<4, {7}>>
      [] method = "setStepSize" -> <<4, {0, 1}>>
      [] method \in {"enableSCIndication", "disableSCIndication"} -> <<5, {7}>>
      [] method \in {"enableOCPIndication", "disableOCPIndication"}
           -> <<5, {6}>>
      [] method \in {"enableOVPIndication", "disableOVPIndication"}
           -> <<5, {5}>>
      [] method = "setCDCOption" -> <<5, {3}>>
      [] method = "setCDCCompensation" -> <<5, {0, 1, 2}>>
      [] method \in {"enable", "disable"} -> <<6, {7}>>
      [] method = "FSWDoubling" -> <<6, {6}>>
      [] method \in {"enableHiccupMode", "disableHiccupMode"} -> <<6, {5}>>
      [] method \in {"enableVOUTDischarge", "disableVOUTDischarge"}
           -> <<6, {4}>>
      [] method = "FSWOperatingMode" -> <<6, {1}>>
      [] OTHER -> <<7, {}>>

\* C11: a call of a bit-field mutator of VOUT_FS, CDC or MODE leaves every
\* bit outside the mutator's field unchanged in its register, whatever the
\* prior value of the register, and changes no other shadow register.
C11_BitIsolation ==
    [][ FieldOf(call'[1])[1] # 7
        => LET reg == FieldOf(call'[1])[1]
               field == FieldOf(call'[1])[2]
           IN  /\ \A k \in (0..7) \ field :
                     Bit(Shadow(self')[reg], k) = Bit(Shadow(self)[reg], k)
               /\ \A a \in (0..6) \ {reg} :
                     Shadow(self')[a] = Shadow(self)[a] ]_vars

\* the compensation field is rewritten in a CDC register whose other fields
\* have all been moved away from their values after construction
C11_Witness ==
    /\ pc = "ready"
    /\ call = <<"setCDCCompensation", 3>>
    /\ Bit(self.CDC, 7) = 0
    /\ Bit(self.CDC, 5) = 0
    /\ Bit(self.CDC, 3) = 1
    /\ Field(self.CDC, 0, 3) = 3

\* C12: after setFeedbackMechanism(m) with a valid m, bit 7 of the byte
\* written to address 0x04 equals the requested mode (0 internal, 1
\* external), whatever the prior state; "internal" after "external" leaves
\* bit 7 at 0.
C12_FeedbackBitEqualsRequest ==
    [][ (call'[1] = "setFeedbackMechanism"
         /\ call'[2] \in {"internal", "external"})
        => /\ writes' # <<>>
           /\ writes'[Len(writes')][1] = TPS55289_VOUT_FS_ADDR
           /\ Bit(writes'[Len(writes')][2], 7)
                = (IF call'[2] = "external" THEN 1 ELSE 0) ]_vars

\* the 2-bit code of the step size whose INTFB ratio the voltage codec uses
StepCodeOf(intfbVal) ==
    CASE intfbVal = INTFB_00 -> 0
      [] intfbVal = INTFB_01 -> 1
      [] intfbVal = INTFB_10 -> 2
      [] intfbVal = INTFB_11 -> 3

\* C13: in every state after construction, the low 2 bits of the VOUT_FS
\* shadow register and of the byte last written to address 0x04 are the code
\* of the step size that setOutputVoltage uses (0b00 2.5 mV, 0b01 5 mV,
\* 0b10 7.5 mV, 0b11 10 mV).
C13_StepBitsMatchStepVoltage ==
    pc = "ready"
    => /\ Field(self.VOUT_FS, 0, 2) = StepCodeOf(self.INTFB_Val)
       /\ Field(dev[TPS55289_VOUT_FS_ADDR], 0, 2) = StepCodeOf(self.INTFB_Val)

\* what a status read is to report for the 2-bit operating-mode code
ModeReport(code) ==
    CASE code = 0 -> "Operating Mode = Boost"
      [] code = 1 -> "Operating Mode = Buck"
      [] code = 2 -> "Operating Mode = Buck-Boost"
      [] code = 3 -> "DC-DC Converter is in invalid state"

\* C14: a status read that returns has reported the invalid state when the
\* low 2 bits of the byte are 0b11, in monitor mode as well as in debug mode,
\* and a debug read has reported Boost, Buck, Buck-Boost for low bits 0, 1, 2.
C14_ReservedModeReported ==
    [][ (/\ call'[1] = "readStatusRegister"
         /\ err' = "none"
         /\ (Field(self'.STATUS, 0, 2) = 3 \/ call'[2] = "debug"))
        => Printed(out', ModeReport(Field(self'.STATUS, 0, 2))) ]_vars

\* a status read reported the overvoltage fault
OvervoltageReported(lines) ==
    \/ Printed(lines, "Overvoltage Event Detected")
    \/ \E i \in DOMAIN lines : lines[i] = <<"Overvoltage Status", 1, 1>>

\* C15: a status read that returns has reported the overvoltage fault exactly
\* when bit 5 of the status byte is set (status 0b00100000 reports it),
\* whatever the other bits of the byte are.
C15_FaultFlagsByFixedBits ==
    [][ (call'[1] = "readStatusRegister" /\ err' = "none")
        => (OvervoltageReported(out') <=> Bit(self'.STATUS, 5) = 1) ]_vars

(***************************************************************************)
(* Initialisation, bus failure, repeated calls                             *)
(***************************************************************************)
\* the registers a configuration step of init() is to write, in order; the
\* current limit step is lines 114-115 together, and its write is the one
\* enableOutputCurrentLimit issues
InitWriteOf(step) ==
    CASE step \in {"disable", "FSWDoubling", "enableHiccupMode",
                   "disableVOUTDischarge", "FSWOperatingMode", "enable"}
           -> <<TPS55289_MODE_ADDR>>
      [] step = "setOutputVoltage"
           -> <<TPS55289_REF_VOLTAGE_LSB_ADDR, TPS55289_REF_VOLTAGE_MSB_ADDR>>
      [] step = "enableOutputCurrentLimit" -> <<TPS55289_IOUT_LIMIT_ADDR>>
      [] step \in {"setOCPResponseTime", "setSlewRate"}
           -> <<TPS55289_VOUT_SR_ADDR>>
      [] step \in {"setFeedbackMechanism", "setStepSize"}
           -> <<TPS55289_VOUT_FS_ADDR>>
      [] step \in {"enableSCIndication", "enableOCPIndication",
                   "enableOVPIndication", "setCDCOption",
                   "setCDCCompensation"}
           -> <<TPS55289_CDC_ADDR>>

InitWriteSteps ==
    {"disable", "setOutputVoltage", "enableOutputCurrentLimit",
     "setOCPResponseTime", "setSlewRate", "setFeedbackMechanism",
     "setStepSize", "enableSCIndication", "enableOCPIndication",
     "enableOVPIndication", "setCDCOption", "setCDCCompensation",
     "FSWDoubling", "enableHiccupMode", "disableVOUTDischarge",
     "FSWOperatingMode", "enable"}

\* C16: every configuration step of init() issues the write of its register
\* (disable 0x06; voltage 0x00 then 0x01; current limit 0x02; slew rate and
\* OCP delay 0x03; feedback mode and step size 0x04; indications and
\* compensation 0x05; hiccup, discharge-disable and PFM mode 0x06; enable
\* 0x06), and no step before the final enable turns the output on.
C16_InitStepsWriteInOrder ==
    [][ (pc \notin {"ready", "failed"} /\ pc' # "failed")
        => /\ pc \in InitWriteSteps
                => [i \in DOMAIN writes' |-> writes'[i][1]] = InitWriteOf(pc)
           /\ pc # "enable"
                => (enablePin' = 0 /\ Bit(self'.MODE, 7) = 0) ]_vars

\* init() has applied the default 0.8 V at the 10 mV step
DefaultVoltageApplied ==
    /\ RegisterCode(self) = VrefCode(8, INTFB_11)
    /\ self.INTFB = 3

\* C17: construction with the defaults on a device whose status shows no
\* fault completes: the status read of init() goes on to enable(), and
\* enable() ends init() with the pin on, MODE bit 7 set and the output
\* voltage the driver holds within 10 mV of 0.8 V.
C17_DefaultConstruction ==
    [][ DefaultVoltageApplied
        => /\ (pc = "readStatusRegister" /\ Field(self'.STATUS, 4, 3) = 0)
                => pc' = "enable"
           /\ pc = "enable"
                => /\ pc' = "ready"
                   /\ enablePin' = 1
                   /\ Bit(self'.MODE, 7) = 1
                   /\ 100 * self'.outputVoltage[1] - 80 * self'.outputVoltage[2]
                        <= self'.outputVoltage[2]
                   /\ 80 * self'.outputVoltage[2] - 100 * self'.outputVoltage[1]
                        <= self'.outputVoltage[2] ]_vars

\* C18: after init() and after every public call, on a bus whose writes can
\* fail, each shadow register 0x00-0x06 equals the last byte written to its
\* address with success.
C18_ShadowEqualsLastWritten ==
    pc = "ready" => \A a \in 0..6 : Shadow(self)[a] = dev[a]

\* calls of the single-field setters with a valid argument
ValidSetterCall(c) ==
    /\ c[1] \notin {"scan", "readStatusRegister", "__init__"}
    /\ ~InvalidCall(c)
    /\ c[1] = "setOutputVoltage" => InRange(c[2])
    /\ c[1] \in {"FSWDoubling", "FSWOperatingMode", "setCDCOption"}
         => c[2] \in {0, 1}

\* C19: a setter called with a valid argument right after the same call
\* leaves every shadow register as the first call left it.
C19_Idempotent ==
    [][ (pc = "ready" /\ call' = call /\ ValidSetterCall(call'))
        => Shadow(self') = Shadow(self) ]_vars

\* setOutputVoltage(5.0) is repeated on a driver constructed with 0.8 V
C19_Witness ==
    /\ pc = "ready"
    /\ again
    /\ call = <<"setOutputVoltage", 50>>
    /\ self.VREF = 421

\* C20: while the status held is a fault and the output is off, every step
\* other than a call of enable() by the caller leaves the pin off and MODE
\* bit 7 clear; so init() ends disabled when its status read shows a fault.
C20_FaultDisableLatched ==
    [][ (/\ Field(self.STATUS, 4, 3) # 0
         /\ enablePin = 0
         /\ ~(pc = "ready" /\ call'[1] = "enable"))
        => (enablePin' = 0 /\ Bit(self'.MODE, 7) = 0) ]_vars

(***************************************************************************)
(* Reference code and MODE bits after a call                               *)
(***************************************************************************)
\* C21: after setOutputVoltage(v) with v in [0.8, 22.0] the reference code
\* held and written depends only on v and the step size in force, not on
\* the code of earlier calls: it is the 11-bit code computed from v.
C21_ReferenceCodeHistoryFree ==
    [][ (/\ pc = "ready"
         /\ call'[1] = "setOutputVoltage"
         /\ InRange(call'[2])
         /\ self.INTFB # 0
         /\ VrefCode(call'[2], self.INTFB_Val) \in 0..2047)
        => /\ self'.VREF = VrefCode(call'[2], self.INTFB_Val)
           /\ RegisterCode(self') = VrefCode(call'[2], self.INTFB_Val)
           /\ dev'[TPS55289_REF_VOLTAGE_LSB_ADDR] = self'.REF_VOLTAGE_LSB
           /\ dev'[TPS55289_REF_VOLTAGE_MSB_ADDR] = self'.REF_VOLTAGE_MSB ]_vars

\* the MODE bit and the value each enable/disable method is named after
NamedBitOf(method) ==
    CASE method = "enableVOUTDischarge" -> <<4, 1>>
      [] method = "disableVOUTDischarge" -> <<4, 0>>
      [] method = "enableHiccupMode" -> <<5, 1>>
      [] method = "disableHiccupMode" -> <<5, 0>>

\* C22: after enableVOUTDischarge bit 4 of MODE is 1 and after
\* disableVOUTDischarge it is 0, after enableHiccupMode bit 5 is 1 and after
\* disableHiccupMode it is 0, from any prior state, and the resulting MODE
\* byte is the one written to address 0x06.
C22_ModePairsSetNamedValue ==
    [][ (/\ pc = "ready"
         /\ call'[1] \in {"enableVOUTDischarge", "disableVOUTDischarge",
                          "enableHiccupMode", "disableHiccupMode"})
        => /\ Bit(self'.MODE, NamedBitOf(call'[1])[1])
                = NamedBitOf(call'[1])[2]
           /\ writes' = <<<<TPS55289_MODE_ADDR, self'.MODE>>>> ]_vars

=============================================================================
